---- MODULE Spec2Model ----
(***************************************************************************)
(* Model of the smart-light controller (rpilight/controller.py) and of the *)
(* HTTP command handlers that drive it (app.py).                           *)
(*                                                                         *)
(* Two threads run: the controller's background thread executing           *)
(* LightController._loop, and a client thread issuing commands one at a    *)
(* time (set_auto, set_manual, the threshold handler, shutdown).  The      *)
(* controller takes no lock, so the two threads interleave between any two *)
(* attribute accesses; each action below is one such access or one call    *)
(* into the sensor or the output device.                                   *)
(*                                                                         *)
(* Light levels and thresholds are floats in the code; here they are       *)
(* integers counting tenths (3 is 0.3, 10 is 1.0, 15 is 1.5), with NaN a   *)
(* distinguished value on which every ordering comparison is false.        *)
(***************************************************************************)
EXTENDS Integers, Sequences, FiniteSets, TLC

VARIABLES
    sensor,             \* LightController.sensor: "none" or "some" (immutable)
    auto_enabled,       \* LightController.auto_enabled
    darkness_threshold, \* LightController.darkness_threshold (tenths, or NaN)
    last_sensor_value,  \* LightController._last_sensor_value: <<>> is None, <<v>> a reading
    hw_state,           \* LightHardwareInterface._state (what is_on reports)
    device,             \* the physical output as last driven by on_func/off_func
    stop_event,         \* LightController._stop_event
    l_pc,               \* position of the loop thread in _loop
    value,              \* _loop's local `value`: <<>> when unbound
    c_pc,               \* position of the client thread inside a command
    c_on,               \* set_manual's argument `on` while the call is in progress
    req,                \* payload of the latest threshold request
    resp,               \* HTTP status of the latest threshold request (0: none yet)
    sd_returned,        \* shutdown() has returned to its caller at least once
    sd_expired,         \* the latest shutdown()'s join ran out of time
    sd_result,          \* what the latest shutdown() returned
    tick,               \* history: how the loop's current iteration went so far
    quiet,              \* history: no command step since the current iteration began
    thr0,               \* history: darkness_threshold when the current iteration began
    hist,               \* history: the latest commands, as far as the claims need them
    late_cmd,           \* history: the loop called turn_on/turn_off since the stop flag was set
    since_cmd,          \* history: the loop called turn_on/turn_off since the latest command step
    tod,                \* a TimeOfDaySensor: its two boundaries, the clock, its latest read()
    bld                 \* a run of build_default_controller: configuration, progress, outcome

vars == <<sensor, auto_enabled, darkness_threshold, last_sensor_value, hw_state,
          device, stop_event, l_pc, value, c_pc, c_on, req, resp,
          sd_returned, sd_expired, sd_result, tick, quiet, thr0, hist,
          late_cmd, since_cmd, tod, bld>>

ctrl == <<auto_enabled, darkness_threshold, last_sensor_value, hw_state, device>>
sdvars == <<sd_returned, sd_expired, sd_result>>
loopvars == <<l_pc, value, tick, thr0>>

(***************************************************************************)
(* Floats                                                                  *)
(***************************************************************************)
NaN == 99

\* float < float and float <= float: false as soon as one side is NaN
Lt(a, b) == a # NaN /\ b # NaN /\ a < b
Le(a, b) == a # NaN /\ b # NaN /\ a <= b

\* builtin min(a, b) and max(a, b): keep the first argument unless the second
\* compares strictly below (above) it
PyMin(a, b) == IF Lt(b, a) THEN b ELSE a
PyMax(a, b) == IF Lt(a, b) THEN b ELSE a

\* the expression max(0.0, min(1.0, threshold)) of the threshold handler
ClampNoUpper(t) == PyMax(0, t)
ClampThreshold(t) == PyMax(0, PyMin(10, t))

(***************************************************************************)
(* The threshold request body                                              *)
(***************************************************************************)
Payload(k, n, s) == [k |-> k, n |-> n, s |-> s]
NoRequest == Payload("none", 0, "")

\* JSON bodies a client can send: no "value" key, null, true, a number, a string
Payloads ==
    {Payload("missing", 0, ""), Payload("null", 0, ""), Payload("bool", 1, "")}
    \cup {Payload("num", n, "") : n \in {0 - 5, 5, 15}}
    \cup {Payload("str", 0, s) : s \in {"0.5", "nan", "abc"}}

\* float(str): the strings the model sends
StrToFloat(s) ==
    CASE s = "0.5" -> <<"ok", 5>>
      [] s = "1.5" -> <<"ok", 15>>
      [] s = "nan" -> <<"ok", NaN>>
      [] OTHER     -> <<"ValueError", 0>>

\* float(payload["value"]): <<"ok", x>> or the exception raised
ParseFloat(p) ==
    CASE p.k = "missing" -> <<"KeyError", 0>>
      [] p.k = "null"    -> <<"TypeError", 0>>
      [] p.k = "bool"    -> <<"ok", 10 * p.n>>
      [] p.k = "num"     -> <<"ok", p.n>>
      [] p.k = "str"     -> StrToFloat(p.s)

(***************************************************************************)
(* Construction                                                            *)
(***************************************************************************)
\* light levels sensor.read() can return
Readings == {2, 5}

\* DARKNESS_THRESHOLD as _init_controller passes it on: the default 0.3, or
\* whatever float the environment holds
ConfiguredThresholds == {3, 15}

\* the time-of-day sensor and the builder run are followed on their own, in
\* SpecTime and SpecBuild below; here they stay at these values
NoTimeSensor == [evening |-> 21, morning |-> 6, now |-> 0, out |-> <<>>]
NoBuild == [pc |-> "unused"]

Init ==
    /\ sensor \in {"none", "some"}
    /\ auto_enabled \in BOOLEAN
    /\ darkness_threshold \in ConfiguredThresholds
    /\ last_sensor_value = <<>>
    /\ hw_state = FALSE
    /\ device = FALSE
    /\ stop_event = FALSE
    /\ l_pc = "while"
    /\ value = <<>>
    /\ c_pc = "idle"
    /\ c_on = FALSE
    /\ req = NoRequest
    /\ resp = 0
    /\ sd_returned = FALSE
    /\ sd_expired = FALSE
    /\ sd_result = "unset"
    /\ tick = "start"
    /\ quiet = TRUE
    /\ thr0 = <<>>
    /\ hist = "none"
    /\ late_cmd = FALSE
    /\ since_cmd = FALSE
    /\ tod = NoTimeSensor
    /\ bld = NoBuild

(***************************************************************************)
(* The loop thread: LightController._loop                                  *)
(***************************************************************************)
\* the while test without the stop flag: `while True:`
LoopWhileIgnoresStop ==
    /\ l_pc = "while"
    /\ l_pc' = "if_auto"
    /\ tick' = "start"
    /\ quiet' = TRUE
    /\ thr0' = <<darkness_threshold>>
    /\ UNCHANGED <<sensor, tod, bld, late_cmd, since_cmd, ctrl, stop_event, value, c_pc, c_on, req, resp, sdvars, hist>>

\* while not self._stop_event.is_set():
LoopWhile ==
    /\ l_pc = "while"
    /\ l_pc' = IF stop_event THEN "done" ELSE "if_auto"
    /\ tick' = "start"
    /\ quiet' = TRUE
    /\ thr0' = IF stop_event THEN <<>> ELSE <<darkness_threshold>>
    /\ UNCHANGED <<sensor, tod, bld, late_cmd, since_cmd, ctrl, stop_event, value, c_pc, c_on, req, resp, sdvars, hist>>

\* the if without its sensor test: `if self.auto_enabled:`
LoopIfAutoNoSensorTest ==
    /\ l_pc = "if_auto"
    /\ IF auto_enabled
         THEN l_pc' = "read" /\ tick' = "auto" /\ thr0' = thr0
         ELSE l_pc' = "sleep" /\ tick' = "skipped" /\ thr0' = <<>>
    /\ UNCHANGED <<sensor, tod, bld, late_cmd, since_cmd, ctrl, stop_event, value, c_pc, c_on, req, resp, sdvars,
                   quiet, hist>>

\* if self.auto_enabled and self.sensor is not None:
LoopIfAuto ==
    /\ l_pc = "if_auto"
    /\ IF auto_enabled /\ sensor # "none"
         THEN l_pc' = "read" /\ tick' = "auto" /\ thr0' = thr0
         ELSE l_pc' = "sleep" /\ tick' = "skipped" /\ thr0' = <<>>
    /\ UNCHANGED <<sensor, tod, bld, late_cmd, since_cmd, ctrl, stop_event, value, c_pc, c_on, req, resp, sdvars,
                   quiet, hist>>

\* value = self.sensor.read(), the read returning
LoopReadOk ==
    /\ l_pc = "read"
    /\ \E v \in Readings : value' = <<v>>
    /\ l_pc' = "store"
    /\ tick' = "read"
    /\ UNCHANGED <<sensor, tod, bld, late_cmd, since_cmd, ctrl, stop_event, c_pc, c_on, req, resp, sdvars, quiet, thr0, hist>>

\* the read raising and the handler forgetting the previous reading
LoopReadFailClearsReading ==
    /\ l_pc = "read"
    /\ l_pc' = "sleep"
    /\ tick' = "failed"
    /\ thr0' = <<>>
    /\ last_sensor_value' = <<>>
    /\ UNCHANGED <<sensor, tod, bld, late_cmd, since_cmd, auto_enabled, darkness_threshold,
                   hw_state, device, stop_event, value, c_pc, c_on, req, resp, sdvars,
                   quiet, hist>>

\* the read raising and the exception escaping _loop: the thread dies
LoopReadFailEscapes ==
    /\ l_pc = "read"
    /\ l_pc' = "done"
    /\ tick' = "failed"
    /\ thr0' = <<>>
    /\ UNCHANGED <<sensor, tod, bld, late_cmd, since_cmd, ctrl, stop_event, value, c_pc, c_on, req, resp, sdvars,
                   quiet, hist>>

\* value = self.sensor.read() raising: except Exception logs it, and the loop
\* goes on to time.sleep
LoopReadFail ==
    /\ l_pc = "read"
    /\ l_pc' = "sleep"
    /\ tick' = "failed"
    /\ thr0' = <<>>
    /\ UNCHANGED <<sensor, tod, bld, late_cmd, since_cmd, ctrl, stop_event, value, c_pc, c_on, req, resp, sdvars,
                   quiet, hist>>

\* self._last_sensor_value = value
LoopStore ==
    /\ l_pc = "store"
    /\ last_sensor_value' = value
    /\ l_pc' = "compare"
    /\ UNCHANGED <<sensor, tod, bld, late_cmd, since_cmd, auto_enabled, darkness_threshold, hw_state, device,
                   stop_event, value, c_pc, c_on, req, resp, sdvars, tick, quiet, thr0, hist>>

\* the test of the loop's if, with < in place of <=
IsDarkStrict(v, threshold) == Lt(v, threshold)

\* value <= self.darkness_threshold
IsDark(v, threshold) == Le(v, threshold)

\* if value <= self.darkness_threshold: ... else: ...
LoopCompare ==
    /\ l_pc = "compare"
    /\ l_pc' = IF IsDark(value[1], darkness_threshold) THEN "on_func" ELSE "off_func"
    /\ value' = <<>>
    /\ thr0' = <<>>
    /\ UNCHANGED <<sensor, tod, bld, late_cmd, since_cmd, ctrl, stop_event, c_pc, c_on, req, resp, sdvars,
                   tick, quiet, hist>>

\* hardware.turn_on() / turn_off(), first half: self._on_func() / self._off_func()
LoopHwFunc ==
    /\ l_pc \in {"on_func", "off_func"}
    /\ device' = (l_pc = "on_func")
    /\ l_pc' = IF l_pc = "on_func" THEN "on_state" ELSE "off_state"
    /\ late_cmd' = (late_cmd \/ stop_event)
    /\ since_cmd' = TRUE
    /\ UNCHANGED <<sensor, tod, bld, auto_enabled, darkness_threshold, last_sensor_value,
                   hw_state, stop_event, value, c_pc, c_on, req, resp, sdvars,
                   tick, quiet, thr0, hist>>

\* hardware.turn_on() / turn_off(), second half: self._state = True / False
LoopHwState ==
    /\ l_pc \in {"on_state", "off_state"}
    /\ hw_state' = (l_pc = "on_state")
    /\ l_pc' = "sleep"
    /\ UNCHANGED <<sensor, tod, bld, late_cmd, since_cmd, auto_enabled, darkness_threshold, last_sensor_value,
                   device, stop_event, value, c_pc, c_on, req, resp, sdvars,
                   tick, quiet, thr0, hist>>

\* time.sleep(self.poll_interval) returning
LoopSleep ==
    /\ l_pc = "sleep"
    /\ l_pc' = "while"
    /\ UNCHANGED <<sensor, tod, bld, late_cmd, since_cmd, ctrl, stop_event, value, c_pc, c_on, req, resp, sdvars,
                   tick, quiet, thr0, hist>>

LoopNext ==
    \/ LoopWhile
    \/ LoopIfAuto
    \/ LoopReadOk
    \/ LoopReadFail
    \/ LoopStore
    \/ LoopCompare
    \/ LoopHwFunc
    \/ LoopHwState
    \/ LoopSleep

(***************************************************************************)
(* The client thread: the controller's commands                            *)
(***************************************************************************)
\* set_auto that also switches the light off when it leaves Auto mode
SetAutoDrivesSwitch(enabled) ==
    /\ c_pc = "idle"
    /\ auto_enabled' = enabled
    /\ hw_state' = (enabled /\ hw_state)
    /\ device' = (enabled /\ device)
    /\ quiet' = FALSE
    /\ since_cmd' = FALSE
    /\ hist' = IF enabled /\ hist = "manual_on" THEN "reauto_on"
               ELSE IF enabled /\ hist = "manual_off" THEN "reauto_off"
               ELSE "none"
    /\ UNCHANGED <<sensor, tod, bld, late_cmd, darkness_threshold, last_sensor_value,
                   stop_event, loopvars, c_pc, c_on, req, resp, sdvars>>

\* LightController.set_auto(enabled)
SetAuto(enabled) ==
    /\ c_pc = "idle"
    /\ auto_enabled' = enabled
    /\ quiet' = FALSE
    /\ since_cmd' = FALSE
    /\ hist' = IF enabled /\ hist = "manual_on" THEN "reauto_on"
               ELSE IF enabled /\ hist = "manual_off" THEN "reauto_off"
               ELSE "none"
    /\ UNCHANGED <<sensor, tod, bld, late_cmd, darkness_threshold, last_sensor_value, hw_state, device,
                   stop_event, loopvars, c_pc, c_on, req, resp, sdvars>>

\* set_manual without `self.auto_enabled = False`
SetManualBeginKeepsAuto(on) ==
    /\ c_pc = "idle"
    /\ c_on' = on
    /\ c_pc' = "m_func"
    /\ quiet' = FALSE
    /\ since_cmd' = FALSE
    /\ hist' = "none"
    /\ UNCHANGED <<sensor, tod, bld, late_cmd, auto_enabled, darkness_threshold,
                   last_sensor_value, hw_state, device, stop_event, loopvars, req, resp, sdvars>>

\* LightController.set_manual(on): self.auto_enabled = False
SetManualBegin(on) ==
    /\ c_pc = "idle"
    /\ auto_enabled' = FALSE
    /\ c_on' = on
    /\ c_pc' = "m_func"
    /\ quiet' = FALSE
    /\ since_cmd' = FALSE
    /\ hist' = "none"
    /\ UNCHANGED <<sensor, tod, bld, late_cmd, darkness_threshold, last_sensor_value, hw_state, device,
                   stop_event, loopvars, req, resp, sdvars>>

\* set_manual: hardware.turn_on() / turn_off(), first half
SetManualHwFunc ==
    /\ c_pc = "m_func"
    /\ device' = c_on
    /\ c_pc' = "m_state"
    /\ quiet' = FALSE
    /\ since_cmd' = FALSE
    /\ UNCHANGED <<sensor, tod, bld, late_cmd, auto_enabled, darkness_threshold, last_sensor_value,
                   hw_state, stop_event, loopvars, c_on, req, resp, sdvars, hist>>

\* set_manual: hardware.turn_on() / turn_off(), second half
SetManualHwState ==
    /\ c_pc = "m_state"
    /\ hw_state' = c_on
    /\ c_pc' = "m_ret"
    /\ quiet' = FALSE
    /\ since_cmd' = FALSE
    /\ UNCHANGED <<sensor, tod, bld, late_cmd, auto_enabled, darkness_threshold, last_sensor_value,
                   device, stop_event, loopvars, c_on, req, resp, sdvars, hist>>

\* set_manual returning to its caller
SetManualReturn ==
    /\ c_pc = "m_ret"
    /\ c_pc' = "idle"
    /\ c_on' = FALSE
    /\ quiet' = FALSE
    /\ since_cmd' = FALSE
    /\ hist' = IF c_on THEN "manual_on" ELSE "manual_off"
    /\ UNCHANGED <<sensor, tod, bld, late_cmd, ctrl, stop_event, loopvars, req, resp, sdvars>>

\* app.py api_threshold with request body p
ApiThreshold(p) ==
    /\ c_pc = "idle"
    /\ req' = p
    /\ LET parsed == ParseFloat(p) IN
         IF parsed[1] = "ok"
           THEN /\ darkness_threshold' = ClampThreshold(parsed[2])
                /\ resp' = 200
           ELSE /\ darkness_threshold' = darkness_threshold
                /\ resp' = 400
    /\ quiet' = FALSE
    /\ since_cmd' = FALSE
    /\ hist' = "none"
    /\ UNCHANGED <<sensor, tod, bld, late_cmd, auto_enabled, last_sensor_value, hw_state, device,
                   stop_event, loopvars, c_pc, c_on, sdvars>>

\* LightController.shutdown(): self._stop_event.set()
ShutdownBegin ==
    /\ c_pc = "idle"
    /\ stop_event' = TRUE
    /\ c_pc' = "join"
    /\ quiet' = FALSE
    /\ since_cmd' = FALSE
    /\ hist' = "none"
    /\ UNCHANGED <<sensor, tod, bld, late_cmd, ctrl, loopvars, c_on, req, resp, sdvars>>

\* shutdown: self._thread.join(timeout=...) returning because the thread ended
ShutdownJoined ==
    /\ c_pc = "join"
    /\ l_pc = "done"
    /\ c_pc' = "idle"
    /\ sd_returned' = TRUE
    /\ sd_expired' = FALSE
    /\ sd_result' = "None"
    /\ UNCHANGED <<sensor, tod, bld, late_cmd, since_cmd, ctrl, stop_event, loopvars, c_on, req, resp, quiet, hist>>

\* positions where the loop thread is inside a call whose duration the
\* controller does not bound: sensor.read(), the device's on_func / off_func
InUnboundedCall == l_pc \in {"read", "on_func", "off_func"}

\* shutdown: join returning because 2 * poll_interval elapsed with the thread
\* alive.  The loop's own sleep lasts one poll_interval, so the wait outlasts
\* it; it expires when the thread is held in one of the calls above.
ShutdownTimedOut ==
    /\ c_pc = "join"
    /\ InUnboundedCall
    /\ c_pc' = "idle"
    /\ sd_returned' = TRUE
    /\ sd_expired' = TRUE
    /\ sd_result' = "None"
    /\ UNCHANGED <<sensor, tod, bld, late_cmd, since_cmd, ctrl, stop_event, loopvars, c_on, req, resp, quiet, hist>>

Next ==
    \/ LoopWhile
    \/ LoopIfAuto
    \/ LoopReadOk
    \/ LoopReadFail
    \/ LoopStore
    \/ LoopCompare
    \/ LoopHwFunc
    \/ LoopHwState
    \/ LoopSleep
    \/ \E enabled \in BOOLEAN : SetAuto(enabled)
    \/ \E on \in BOOLEAN : SetManualBegin(on)
    \/ SetManualHwFunc
    \/ SetManualHwState
    \/ SetManualReturn
    \/ \E p \in Payloads : ApiThreshold(p)
    \/ ShutdownBegin
    \/ ShutdownJoined
    \/ ShutdownTimedOut

Spec == Init /\ [][Next]_vars

TypeOK ==
    /\ sensor \in {"none", "some"}
    /\ auto_enabled \in BOOLEAN
    /\ darkness_threshold \in {0, 3, 5, 10, 15, NaN}
    /\ last_sensor_value \in {<<>>} \cup {<<v>> : v \in Readings}
    /\ hw_state \in BOOLEAN /\ device \in BOOLEAN /\ stop_event \in BOOLEAN
    /\ resp \in {0, 200, 400}

(***************************************************************************)
(* Properties                                                              *)
(***************************************************************************)

\* C1: the loop never calls hardware.turn_on() or hardware.turn_off() at a
\* moment when auto_enabled is false (in Manual mode only set_manual drives
\* the switch).
C1_LoopDrivesOnlyInAuto == [][LoopHwFunc => auto_enabled]_vars

\* C2: at the moment set_manual(x) returns, is_on equals x and auto_enabled
\* is false.
C2_ManualReturnsCommandedState ==
    c_pc = "m_ret" => (hw_state = c_on /\ ~auto_enabled)

\* C3: at the end of every tick that ran in Auto mode and obtained a reading
\* (the step completing the tick's hardware command), is_on equals
\* last_sensor_value <= darkness_threshold, taken on the values as they
\* stand at that moment.
C3_TickEndMatchesReading ==
    [][LoopHwState =>
         (hw_state' = Le(last_sensor_value'[1], darkness_threshold'))]_vars

\* C4: a tick whose sensor read fails changes neither LastReading nor the
\* switch (reported state and physical output) in any of its steps, goes
\* from the failed read straight to the sleep, issuing no hardware command,
\* and the loop thread ends only at its while test with the stop flag set.
C4_FailedReadIsolated ==
    [][/\ (LoopWhile \/ LoopIfAuto \/ LoopReadFail \/ (tick = "failed" /\ LoopNext))
            => UNCHANGED <<last_sensor_value, hw_state, device>>
       /\ (tick' = "failed" /\ tick # "failed") => l_pc' = "sleep"
       /\ (tick = "failed" /\ LoopNext) => l_pc' \in {"while", "if_auto"} \/ stop_event
       /\ (l_pc' = "done" /\ l_pc # "done") => (l_pc = "while" /\ stop_event)]_vars

\* C4 witness: a read failed on a tick that follows a successful one, and the
\* earlier reading and the switch state it produced are still in place.
C4_Witness ==
    /\ tick = "failed" /\ l_pc = "sleep"
    /\ last_sensor_value = <<2>> /\ hw_state /\ device
    /\ c_pc = "idle" /\ hist = "none" /\ ~stop_event

\* C5: once shutdown() has returned, the loop issues no hardware command.
C5_NoLoopCommandAfterShutdown == [][LoopHwFunc => ~sd_returned]_vars

\* C6: when shutdown()'s bounded wait expired with the loop still running,
\* what shutdown() returns differs from what it returns when the loop
\* exited in time (None).
C6_ShutdownReportsTimeout ==
    (sd_returned /\ sd_expired) => sd_result # "None"

\* C7: DarknessThreshold lies in [0,1] in every reachable state, the state
\* right after construction included.
C7_ThresholdInRange == Le(0, darkness_threshold) /\ Le(darkness_threshold, 10)

\* the number t a numeric request carries (as <<t>>), <<>> for any other request
RequestedNumber ==
    IF req.k = "num" THEN <<req.n>>
    ELSE IF req.k = "str" /\ req.s = "0.5" THEN <<5>>
    ELSE <<>>

\* C8: after a set-threshold command with numeric input t, the stored
\* threshold is max(0, min(1, t)) and the command was not rejected.
C8_ThresholdClamped ==
    RequestedNumber # <<>> =>
        LET t == RequestedNumber[1] IN
        /\ darkness_threshold = (IF t < 0 THEN 0 ELSE IF t > 10 THEN 10 ELSE t)
        /\ resp = 200

\* C8 witness: a request above 1 was accepted and stored as 1.
C8_Witness ==
    req = Payload("num", 15, "") /\ darkness_threshold = 10 /\ resp = 200

\* C9: the threshold a tick compares its reading against is the value
\* darkness_threshold held when that tick began.
C9_TickUsesThresholdAtStart ==
    [][LoopCompare => ((l_pc' = "on_func") <=> Le(value[1], thr0[1]))]_vars

\* C10: after set_auto(true) following a manual override, with no further
\* command, a tick begun after it that obtains a reading ends with the
\* switch (reported state and physical output) at reading <= threshold.
C10_AutoResumesFromReading ==
    (hist \in {"reauto_on", "reauto_off"} /\ quiet /\ tick = "read" /\ l_pc = "sleep")
        => /\ hw_state = Le(last_sensor_value[1], darkness_threshold)
           /\ device = hw_state

\* C10 witness: the light was commanded on by hand, Auto was re-enabled and
\* the next tick read a bright level: the light is off.
C10_Witness ==
    /\ hist = "reauto_on" /\ quiet /\ tick = "read" /\ l_pc = "sleep"
    /\ last_sensor_value = <<5>> /\ darkness_threshold = 3 /\ ~hw_state /\ ~device

\* C11: whenever no turn_on/turn_off call is in progress, in the loop or in
\* set_manual, is_on equals the state the physical output was last driven to.
C11_ReportedStateMatchesOutput ==
    (l_pc \notin {"on_func", "on_state", "off_func", "off_state"}
       /\ c_pc \notin {"m_func", "m_state"})
        => hw_state = device

\* C12: set_auto(enabled) sets the mode to enabled and changes nothing else:
\* not the reported switch state, the physical output, DarknessThreshold or
\* LastReading.
C12_SetAutoChangesOnlyMode ==
    [][\A e \in BOOLEAN :
         SetAuto(e) => /\ auto_enabled' = e
                       /\ UNCHANGED <<hw_state, device, darkness_threshold,
                                      last_sensor_value>>
        ]_vars

\* C12 witness: the light was switched on by hand and Auto re-enabled; before
\* any tick has run the light is still on, the reading still in place.
C12_Witness ==
    /\ hist = "reauto_on" /\ auto_enabled /\ hw_state /\ device
    /\ ~quiet /\ ~since_cmd /\ last_sensor_value = <<5>> /\ darkness_threshold = 3

\* C17: once the stop flag is set, the while test lets no new tick begin, and
\* the loop calls turn_on/turn_off at most once more.
C17_AtMostOneCommandAfterStop ==
    [][/\ (LoopWhile /\ stop_event) => l_pc' = "done"
       /\ (LoopHwFunc /\ stop_event) => ~late_cmd
        ]_vars

\* C17 witness: the loop issued one hardware command after the stop flag was
\* set, from the tick it was in, and then exited.
C17_Witness == stop_event /\ late_cmd /\ l_pc = "done"

\* C18: with no sensor configured the loop never reads, never calls
\* turn_on/turn_off, LastReading stays absent, and the switch changes only
\* in the steps of set_manual.
C18_NoSensorNoLoopCommand ==
    /\ (sensor = "none" => last_sensor_value = <<>>)
    /\ [][sensor = "none" =>
            /\ last_sensor_value' = <<>>
            /\ ~LoopReadOk /\ ~LoopHwFunc /\ ~LoopHwState
            /\ (hw_state' # hw_state \/ device' # device)
                  => (SetManualHwFunc \/ SetManualHwState)
        ]_vars

\* C18 witness: no sensor, Auto mode re-enabled after the light was switched
\* on by hand; a tick has passed and the light is still on.
C18_Witness ==
    /\ sensor = "none" /\ auto_enabled /\ hist = "reauto_on"
    /\ quiet /\ tick = "skipped" /\ l_pc = "sleep" /\ hw_state /\ device

\* C19: LastReading starts absent; it changes only when the loop stores the
\* value its sensor read just returned, never to absent; every successful
\* read is stored before the loop does anything else; no command changes it.
C19_LastReadingIsLatestRead ==
    /\ last_sensor_value = <<>>
    /\ [][/\ last_sensor_value' # last_sensor_value
               => (LoopStore /\ last_sensor_value' = value /\ value # <<>>)
          /\ LoopReadOk => (l_pc' = "store" /\ value' # <<>>)
          /\ (l_pc = "store" /\ l_pc' # "store")
               => (LoopStore /\ last_sensor_value' = value)
        ]_vars

\* C19 witness: a reading taken earlier is still in place after a manual
\* command, a threshold update and a completed shutdown.
C19_Witness ==
    /\ last_sensor_value = <<5>> /\ l_pc = "done" /\ sd_returned
    /\ hist = "manual_off" /\ req.k = "num"

\* C20: after set_manual returned, with no further command, the loop calls
\* turn_on/turn_off at most once more; once a tick has begun after the
\* return, neither the reported state nor the output changes again.
C20_OneLateCommandAfterManual ==
    [][(hist \in {"manual_on", "manual_off"}) =>
         /\ LoopHwFunc => ~since_cmd
         /\ (quiet /\ hist' = hist)
               => (UNCHANGED <<hw_state, device, auto_enabled>>)
        ]_vars

\* C20 witness: set_manual(False) returned, a tick that had seen Auto mode
\* then switched the light on, and the following tick did nothing.
C20_Witness ==
    /\ hist = "manual_off" /\ since_cmd /\ hw_state /\ device
    /\ quiet /\ tick = "skipped" /\ ~auto_enabled

\* a request body that carries a number: a JSON number or a decimal string
NumericPayload(p) == p.k = "num" \/ (p.k = "str" /\ p.s \in {"0.5", "1.5"})

\* C14: a set-threshold command whose input is missing or is not a number is
\* answered with an error and changes no controller state.
C14_InvalidThresholdRejected ==
    [][\A p \in Payloads :
         (ApiThreshold(p) /\ ~NumericPayload(p))
            => /\ resp' = 400
               /\ UNCHANGED <<darkness_threshold, auto_enabled, last_sensor_value,
                              hw_state, device>>
        ]_vars

(***************************************************************************)
(* The loop thread under fair scheduling                                   *)
(***************************************************************************)
\* The loop runs on a thread of its own: whenever it has a step to take (a
\* sensor read or a device call that returns, a sleep that ends) the
\* interpreter eventually runs it.
FairSpec == Init /\ [][Next]_vars /\ WF_vars(LoopNext)

\* C16: once the stop flag is set the loop eventually exits, and a loop that
\* has exited stays so, whatever command follows.
C16_LoopStopsForGood ==
    /\ stop_event ~> (l_pc = "done")
    /\ [][l_pc = "done" => l_pc' = "done"]_vars

\* C16 witness: the loop has exited after a shutdown, and Auto mode was
\* re-enabled afterwards following a manual command.
C16_Witness ==
    /\ stop_event /\ sd_returned /\ l_pc = "done"
    /\ hist = "reauto_on" /\ auto_enabled /\ req.k = "num"

(***************************************************************************)
(* The time-of-day sensor: TimeOfDaySensor in sensors.py                   *)
(***************************************************************************)
\* the controller's own variables, which the sensor and the builder below
\* leave alone
controller == <<sensor, ctrl, stop_event, loopvars, c_pc, c_on, req, resp, sdvars,
                quiet, hist, late_cmd, since_cmd>>

\* a controller just constructed with the defaults, no step taken yet
ControllerAtRest ==
    /\ sensor = "some" /\ auto_enabled = TRUE /\ darkness_threshold = 3
    /\ last_sensor_value = <<>> /\ hw_state = FALSE /\ device = FALSE
    /\ stop_event = FALSE /\ l_pc = "while" /\ value = <<>>
    /\ c_pc = "idle" /\ c_on = FALSE /\ req = NoRequest /\ resp = 0
    /\ sd_returned = FALSE /\ sd_expired = FALSE /\ sd_result = "unset"
    /\ tick = "start" /\ quiet = TRUE /\ thr0 = <<>> /\ hist = "none"
    /\ late_cmd = FALSE /\ since_cmd = FALSE

\* times of day, as hours: datetime.time values are totally ordered
Times == {0, 2, 6, 8, 12, 18, 21, 23}

\* _is_dark with the wrapping branch left out
IsDarkTimeNoWrap(evening, morning, current) ==
    evening <= current /\ current <= morning

\* TimeOfDaySensor._is_dark(current)
IsDarkTime(evening, morning, current) ==
    IF evening < morning
      THEN evening <= current /\ current <= morning
      ELSE current >= evening \/ current <= morning

InitTime ==
    /\ tod \in [evening : Times, morning : Times, now : Times, out : {<<>>}]
    /\ bld = NoBuild
    /\ ControllerAtRest

\* TimeOfDaySensor.read(): 0.0 if dark else 1.0
TimeOfDayRead ==
    /\ tod' = [tod EXCEPT !.out =
                 <<IF IsDarkTime(tod.evening, tod.morning, tod.now) THEN 0 ELSE 10>>]
    /\ UNCHANGED <<controller, bld>>

\* the clock moving on: datetime.now() returns another time
ClockAdvance ==
    /\ \E t \in Times : t # tod.now /\ tod' = [tod EXCEPT !.now = t, !.out = <<>>]
    /\ UNCHANGED <<controller, bld>>

NextTime ==
    \/ TimeOfDayRead
    \/ ClockAdvance

SpecTime == InitTime /\ [][NextTime]_vars

\* the times the claim calls dark for a window from e to m
DarkTimes(e, m) ==
    IF e < m THEN {t \in Times : e <= t /\ t <= m}
             ELSE Times \ {t \in Times : m < t /\ t < e}

\* C13: read() returns 0.0 exactly when the current time is dark and 1.0
\* otherwise: inside [eveningStart, morningEnd] for a window that does not
\* wrap, outside (morningEnd, eveningStart) for one that wraps midnight;
\* window 21:00-06:00 is dark at 23:00 and 02:00 and not at 12:00.
C13_TimeWindowReading ==
    tod.out # <<>> =>
        /\ tod.out[1] \in {0, 10}
        /\ (tod.out[1] = 0) <=> (tod.now \in DarkTimes(tod.evening, tod.morning))
        /\ (tod.evening = 21 /\ tod.morning = 6 /\ tod.now \in {23, 2}) => tod.out[1] = 0
        /\ (tod.evening = 21 /\ tod.morning = 6 /\ tod.now = 12) => tod.out[1] = 10
        /\ (tod.evening = 8 /\ tod.morning = 18)
              => ((tod.out[1] = 0) <=> (8 <= tod.now /\ tod.now <= 18))

\* C13 witness: window 21:00-06:00 read at 02:00, after midnight: dark.
C13_Witness ==
    tod = [evening |-> 21, morning |-> 6, now |-> 2, out |-> <<0>>]

(***************************************************************************)
(* The builder: build_default_controller in controller.py                  *)
(***************************************************************************)
\* how acquiring a peripheral can end: it succeeds, or the gpiozero device
\* constructor raises, a RuntimeError or an exception of another class
Acquisitions == {"ok", "RuntimeError", "Exception"}

\* a configuration and its environment: use_gpio and whether sensor_pin is
\* given; whether gpiozero can be imported; how OutputDevice(relay_pin) and
\* LightSensor(sensor_pin) end when they are reached
InitBuild ==
    /\ bld \in [pc : {"hardware"}, use_gpio : BOOLEAN, sensor_pin : BOOLEAN,
                gpiozero : BOOLEAN, relay : Acquisitions, light : Acquisitions,
                hardware : {"unset"}, sensor : {"unset"}, exc : {"none"}]
    /\ tod = NoTimeSensor
    /\ ControllerAtRest

\* GPIOHardware(pin=...): "ok", or the exception it raises
GPIOHardwareInit(b) ==
    IF ~b.gpiozero THEN "RuntimeError" ELSE b.relay

\* GPIONativeLightSensor(pin=...): "ok", or the exception it raises
GPIONativeLightSensorInit(b) ==
    IF ~b.gpiozero THEN "RuntimeError" ELSE b.light

\* if use_gpio: try GPIOHardware(...) except RuntimeError: DummyHardware()
\* else: DummyHardware()
BuildHardware ==
    /\ bld.pc = "hardware"
    /\ LET got == GPIOHardwareInit(bld) IN
         bld' = IF ~bld.use_gpio
                  THEN [bld EXCEPT !.hardware = "dummy", !.pc = "sensor"]
                ELSE IF got = "ok"
                  THEN [bld EXCEPT !.hardware = "gpio", !.pc = "sensor"]
                ELSE IF got = "RuntimeError"
                  THEN [bld EXCEPT !.hardware = "dummy", !.pc = "sensor"]
                ELSE [bld EXCEPT !.exc = got, !.pc = "raised"]
    /\ UNCHANGED <<controller, tod>>

\* if sensor_pin is not None: GPIONativeLightSensor(...) else: TimeOfDaySensor(...)
BuildSensor ==
    /\ bld.pc = "sensor"
    /\ LET got == GPIONativeLightSensorInit(bld) IN
         bld' = IF ~bld.sensor_pin
                  THEN [bld EXCEPT !.sensor = "timeofday", !.pc = "construct"]
                ELSE IF got = "ok"
                  THEN [bld EXCEPT !.sensor = "gpio", !.pc = "construct"]
                ELSE [bld EXCEPT !.exc = got, !.pc = "raised"]
    /\ UNCHANGED <<controller, tod>>

\* return LightController(hardware=..., sensor=..., darkness_threshold=...)
BuildController ==
    /\ bld.pc = "construct"
    /\ bld' = [bld EXCEPT !.pc = "returned"]
    /\ UNCHANGED <<controller, tod>>

NextBuild ==
    \/ BuildHardware
    \/ BuildSensor
    \/ BuildController

SpecBuild == InitBuild /\ [][NextBuild]_vars

\* C15: build_default_controller raises to its caller for no configuration,
\* and when the peripheral switch was asked for and could not be acquired
\* the controller it returns holds the no-op switch.
C15_BuilderNeverRaises ==
    /\ bld.pc # "raised"
    /\ (bld.pc = "returned" /\ bld.use_gpio /\ (~bld.gpiozero \/ bld.relay # "ok"))
          => bld.hardware = "dummy"
====
